---- MODULE Spec2Model ----
(***************************************************************************)
(* Model of the Spec Score API (src/main.py): the six category scorers,    *)
(* the weighted aggregation with clamp and rounding, and the request       *)
(* handler calculate_spec of POST /spec/v1/post.                           *)
(*                                                                         *)
(* Numbers.  Python floats are modelled as exact rationals n/d (d > 0, in  *)
(* lowest terms), so division, averaging and rounding to two decimals are  *)
(* computed, not assumed.  Binary rounding error (around 1e-16) and the    *)
(* non-finite floats inf and nan are below / outside this model.           *)
(*                                                                         *)
(* Strings.  The strings the code inspects character by character          *)
(* (Language.test, Language.score_or_grade) are tuples of one-character    *)
(* strings, so that str.upper() and float() are computed.  Strings the     *)
(* code only compares or passes along are TLA+ strings.  The five          *)
(* education labels are Korean literals in the source; they are written    *)
(* here in Latin transliteration, in the order of the source's table.      *)
(***************************************************************************)
EXTENDS Integers, Sequences, FiniteSets, TLC

VARIABLES requests, responses, locals

vars == <<requests, responses, locals>>

----------------------------------------------------------------------------
(* Python values *)

None == [type |-> "NoneType"]

RECURSIVE GCD(_, _)
GCD(a, b) == IF b = 0 THEN a ELSE GCD(b, a % b)

Abs(x) == IF x < 0 THEN -x ELSE x

\* The float n/d, in lowest terms with a positive denominator.
Float(n, d) ==
    LET s == IF d < 0 THEN -1 ELSE 1
        g == GCD(Abs(n), Abs(d))
    IN  [type |-> "float", n |-> (s * n) \div g, d |-> (s * d) \div g]

Num(k) == Float(k, 1)

Add(x, y) == Float(x.n * y.d + y.n * x.d, x.d * y.d)
Mul(x, y) == Float(x.n * y.n, x.d * y.d)
Div(x, y) == Float(x.n * y.d, x.d * y.n)
Le(x, y)  == x.n * y.d <= y.n * x.d
Lt(x, y)  == x.n * y.d < y.n * x.d

\* Python's min(a, b) and max(a, b) on two floats.
Min(a, b) == IF Lt(b, a) THEN b ELSE a
Max(a, b) == IF Lt(a, b) THEN b ELSE a

\* Python's round(x, 2): to the nearest hundredth, ties to the even one.
Round2(x) ==
    LET num == x.n * 100
        q   == num \div x.d
        r   == num % x.d
        k   == IF 2 * r > x.d THEN q + 1
               ELSE IF 2 * r < x.d THEN q
               ELSE IF q % 2 = 0 THEN q ELSE q + 1
    IN  Float(k, 100)

IsExc(v) == v.type = "TypeError"

\* What iterating over, or taking len() of, None raises.
NotIterable == [type |-> "TypeError", msg |-> "'NoneType' object is not iterable"]
NoLen       == [type |-> "TypeError", msg |-> "object of type 'NoneType' has no len()"]

----------------------------------------------------------------------------
(* Strings as tuples of characters *)

LowerCase == <<"a","b","c","d","e","f","g","h","i","j","k","l","m",
               "n","o","p","q","r","s","t","u","v","w","x","y","z">>
UpperCase == <<"A","B","C","D","E","F","G","H","I","J","K","L","M",
               "N","O","P","Q","R","S","T","U","V","W","X","Y","Z">>

UpperChar(c) ==
    IF \E i \in DOMAIN LowerCase : LowerCase[i] = c
    THEN UpperCase[CHOOSE i \in DOMAIN LowerCase : LowerCase[i] = c]
    ELSE c

\* str.upper()
Upper(s) == [i \in DOMAIN s |-> UpperChar(s[i])]

Digits == <<"0","1","2","3","4","5","6","7","8","9">>

IsDigit(c) == \E i \in DOMAIN Digits : Digits[i] = c

DigitVal(c) == (CHOOSE i \in DOMAIN Digits : Digits[i] = c) - 1

RECURSIVE DigitsVal(_)
DigitsVal(s) ==
    IF s = <<>> THEN 0
    ELSE 10 * DigitsVal(SubSeq(s, 1, Len(s) - 1)) + DigitVal(s[Len(s)])

RECURSIVE Pow10(_)
Pow10(k) == IF k = 0 THEN 1 ELSE 10 * Pow10(k - 1)

ValueError == [type |-> "ValueError"]

\* The value of the digits ip, a point, the digits fp; ValueError when a
\* character is no digit or there is no digit at all.
ParseDigits(ip, fp) ==
    IF /\ Len(ip) + Len(fp) >= 1
       /\ \A i \in DOMAIN ip : IsDigit(ip[i])
       /\ \A i \in DOMAIN fp : IsDigit(fp[i])
    THEN Float(DigitsVal(ip) * Pow10(Len(fp)) + DigitsVal(fp), Pow10(Len(fp)))
    ELSE ValueError

\* The position of the first point of body, or one past its end.
PointPos(body) ==
    IF \E i \in DOMAIN body : body[i] = "."
    THEN CHOOSE i \in DOMAIN body : body[i] = "." /\ \A j \in 1..(i - 1) : body[j] # "."
    ELSE Len(body) + 1

ParseSplit(body, p) == ParseDigits(SubSeq(body, 1, p - 1), SubSeq(body, p + 1, Len(body)))

ParseUnsigned(body) == ParseSplit(body, PointPos(body))

Negated(x) == IF x = ValueError THEN ValueError ELSE Float(-x.n, x.d)

\* float(s) on a decimal literal: an optional sign, then digits with at most
\* one point and at least one digit.  Anything else raises ValueError.
ParseFloat(s) ==
    IF s # <<>> /\ s[1] = "-" THEN Negated(ParseUnsigned(Tail(s)))
    ELSE IF s # <<>> /\ s[1] = "+" THEN ParseUnsigned(Tail(s))
    ELSE ParseUnsigned(s)

----------------------------------------------------------------------------
(* 2) The category scorers *)

\* An Optional[List[...]] field holds None or a list.
List(items) == [type |-> "list", items |-> items]

\* An Optional[str] field holds None or a string.
Str(s) == [type |-> "str", s |-> s]

\* The keys of score_education's mapping, lowest level first.
EduLabels == <<"godeunghakgyo", "jeonmunhaksa", "haksa", "seoksa", "baksa">>

score_education(final_edu) ==
    IF \E i \in DOMAIN EduLabels : EduLabels[i] = final_edu
    THEN Num(20 * (CHOOSE i \in DOMAIN EduLabels : EduLabels[i] = final_edu))
    ELSE Num(0)

\* Truth value of an Optional[float]: None and 0.0 are false.
TruthyFloat(x) == x # None /\ x.n # 0

\* The filter of score_universities' list comprehension.
UniValid(u) ==
    /\ TruthyFloat(u.gpa)
    /\ TruthyFloat(u.gpa_max)
    /\ Lt(Num(0), u.gpa_max)

UniPercent(u) == Mul(Div(u.gpa, u.gpa_max), Num(100))

RECURSIVE SumPercent(_)
SumPercent(us) ==
    IF us = <<>> THEN Num(0) ELSE Add(UniPercent(Head(us)), SumPercent(Tail(us)))

score_universities(unis) ==
    IF unis = None THEN NotIterable
    ELSE LET valid == SelectSeq(unis.items, UniValid)
         IN  IF valid = <<>> THEN Num(0)
             ELSE Div(SumPercent(valid), Num(Len(valid)))

\* Variant: len(careers or []), a None list scored as empty.
score_careers_NoneAsEmpty(careers) ==
    IF careers = None THEN Num(0)
    ELSE Min(Num(Len(careers.items) * 20), Num(100))

\* Variant: the cap min(.., 100.0) left out.
score_careers_NoCap(careers) ==
    IF careers = None THEN NoLen
    ELSE Num(Len(careers.items) * 20)

score_careers(careers) ==
    IF careers = None THEN NoLen
    ELSE Min(Num(Len(careers.items) * 20), Num(100))

score_certificates(certs) ==
    IF certs = None THEN NoLen
    ELSE Min(Num(Len(certs.items) * 10), Num(100))

TOEIC == <<"T","O","E","I","C">>
TOEFL == <<"T","O","E","F","L">>
IELTS == <<"I","E","L","T","S">>
OPIC  == <<"O","P","I","C">>

\* grades.get(g, 0) on score_languages' OPIC table.
OpicGrade(g) ==
    CASE g = <<"N","L">> -> 10 [] g = <<"N","M">> -> 20 [] g = <<"N","H">> -> 30
      [] g = <<"I","L">> -> 40 [] g = <<"I","M">> -> 50 [] g = <<"I","H">> -> 60
      [] g = <<"A","L">> -> 80 [] g = <<"A","M">> -> 90 [] g = <<"A","H">> -> 100
      [] OTHER -> 0

\* Variant: the lower bound 0 <= s left out.
InRange_NoLower(s, hi) == Le(s, Num(hi))

InRange(s, hi) == Le(Num(0), s) /\ Le(s, Num(hi))

Counted(acc, v) == [total |-> Add(acc.total, v), cnt |-> acc.cnt + 1]

Percent(s, hi) == Mul(Div(s, Num(hi)), Num(100))

\* The if / elif chain of score_languages' loop body, on the upper-cased test
\* name t, the parsed score s and the running (total, cnt) in acc.
LangDispatch(acc, t, s, lang) ==
    IF s = ValueError THEN acc
    ELSE IF t = TOEIC /\ InRange(s, 990) THEN Counted(acc, Percent(s, 990))
    ELSE IF t = TOEFL /\ InRange(s, 120) THEN Counted(acc, Percent(s, 120))
    ELSE IF t = IELTS /\ InRange(s, 9) THEN Counted(acc, Percent(s, 9))
    ELSE IF t = OPIC /\ OpicGrade(Upper(lang.score_or_grade)) > 0
         THEN Counted(acc, Num(OpicGrade(Upper(lang.score_or_grade))))
    ELSE acc

\* One pass of score_languages' loop body over the entry lang.
LangStep(acc, lang) ==
    LangDispatch(acc, Upper(lang.test), ParseFloat(lang.score_or_grade), lang)

RECURSIVE LangLoop(_, _)
LangLoop(acc, langs) ==
    IF langs = <<>> THEN acc ELSE LangLoop(LangStep(acc, Head(langs)), Tail(langs))

score_languages(langs) ==
    IF langs = None THEN NotIterable
    ELSE LET end == LangLoop([total |-> Num(0), cnt |-> 0], langs.items)
         IN  IF end.cnt # 0 THEN Div(end.total, Num(end.cnt)) ELSE Num(0)

\* Truth value of an Optional[str]: None and "" are false.
TruthyStr(x) == x # None /\ x.s # ""

\* Variant: the bonus given when award is not None, the empty string included.
ActPoints_NotNone(a) == Add(Num(10), IF a.award # None THEN Num(10) ELSE Num(0))

ActPoints(a) == Add(Num(10), IF TruthyStr(a.award) THEN Num(10) ELSE Num(0))

RECURSIVE ActLoop(_, _)
ActLoop(total, acts) ==
    IF acts = <<>> THEN total ELSE ActLoop(Add(total, ActPoints(Head(acts))), Tail(acts))

score_activities(acts) ==
    IF acts = None THEN NotIterable
    ELSE Min(ActLoop(Num(0), acts.items), Num(100))

----------------------------------------------------------------------------
(* 3) The weights and 5) the handler of POST /spec/v1/post *)

WEIGHTS ==
    [education    |-> Float(20, 100),
     university   |-> Float(20, 100),
     careers      |-> Float(15, 100),
     certificates |-> Float(10, 100),
     languages    |-> Float(20, 100),
     activities   |-> Float(15, 100)]

\* Variant: the weights of careers and certificates exchanged.
WeightedSum_Swapped(edu, uni, car, cert, lang, act) ==
    Add(Mul(edu, WEIGHTS.education),
    Add(Mul(uni, WEIGHTS.university),
    Add(Mul(car, WEIGHTS.certificates),
    Add(Mul(cert, WEIGHTS.careers),
    Add(Mul(lang, WEIGHTS.languages),
        Mul(act, WEIGHTS.activities))))))

WeightedSum(edu, uni, car, cert, lang, act) ==
    Add(Mul(edu, WEIGHTS.education),
    Add(Mul(uni, WEIGHTS.university),
    Add(Mul(car, WEIGHTS.careers),
    Add(Mul(cert, WEIGHTS.certificates),
    Add(Mul(lang, WEIGHTS.languages),
        Mul(act, WEIGHTS.activities))))))

\* Variant: the upper clamp min(.., 100.0) left out.
ClampRound_NoUpper(total) == Round2(Max(total, Num(20)))

ClampRound(total) == Round2(Min(Max(total, Num(20)), Num(100)))

\* Variant: graduates get five points on top of the computed score.
ScoreResult_StatusBonus(spec, total) ==
    [kind |-> "ok", nickname |-> spec.nickname,
     totalScore |-> IF spec.final_status = "joreop" THEN Add(total, Num(5)) ELSE total]

\* The handler's return value.
ScoreResult(spec, total) ==
    [kind |-> "ok", nickname |-> spec.nickname, totalScore |-> total]

\* raise HTTPException(status_code=500, detail=str(e))
HTTPException(e) ==
    [kind |-> "error", status_code |-> 500, detail |-> e.msg]

\* A local of the handler that was never assigned.
Unset == [type |-> "unset"]

\* The index of the first scorer that raised, or one past the last.
FirstRaised(vals) ==
    IF \E i \in DOMAIN vals : IsExc(vals[i])
    THEN CHOOSE i \in DOMAIN vals : IsExc(vals[i]) /\ \A j \in 1..(i - 1) : ~IsExc(vals[j])
    ELSE Len(vals) + 1

\* The locals assigned before the try block ended.
Assigned(vals, first) ==
    [edu  |-> IF 1 < first THEN vals[1] ELSE Unset,
     uni  |-> IF 2 < first THEN vals[2] ELSE Unset,
     car  |-> IF 3 < first THEN vals[3] ELSE Unset,
     cert |-> IF 4 < first THEN vals[4] ELSE Unset,
     lang |-> IF 5 < first THEN vals[5] ELSE Unset,
     act  |-> IF 6 < first THEN vals[6] ELSE Unset]

\* The try block's outcome, given the scorers' results in call order.
TryBlock(spec, vals, first) ==
    [response |->
        IF first > Len(vals)
        THEN ScoreResult(spec, ClampRound(
                 WeightedSum(vals[1], vals[2], vals[3], vals[4], vals[5], vals[6])))
        ELSE HTTPException(vals[first]),
     locals |-> Assigned(vals, first)]

Scorers(spec) ==
    <<score_education(spec.final_edu),
      score_universities(spec.universities),
      score_careers(spec.careers),
      score_certificates(spec.certificates),
      score_languages(spec.languages),
      score_activities(spec.activities)>>

\* The handler on the validated body spec: its response and the category
\* scores it had assigned when it returned or raised.  The scorers run in the
\* order edu, uni, car, cert, lang, act; the first exception ends the try block.
calculate_spec(spec) == TryBlock(spec, Scorers(spec), FirstRaised(Scorers(spec)))

----------------------------------------------------------------------------
(* The service: requests in flight, each answered once *)

\* Two requests are in flight, so that two runs of the handler can be compared.
Clients == {"c1", "c2"}

Pending == [kind |-> "pending"]

NoLocals == [edu |-> Unset, uni |-> Unset, car |-> Unset,
             cert |-> Unset, lang |-> Unset, act |-> Unset]

CalculateSpec(c) ==
    /\ responses[c] = Pending
    /\ LET out == calculate_spec(requests[c])
       IN  /\ responses' = [responses EXCEPT ![c] = out.response]
           /\ locals' = [locals EXCEPT ![c] = out.locals]
    /\ UNCHANGED requests

Next == \E c \in Clients : CalculateSpec(c)

----------------------------------------------------------------------------
(* Request bodies that pass validation *)

MaxUnis     == 3
MaxLangs    == 2
MaxActs     == 6
MaxLongActs == 11
MaxCareers  == 7
MaxCerts    == 11
MaxEntries  == 1
MaxCount    == 2

SeqsUpTo(S, n) == UNION {[1..k -> S] : k \in 0..n}

University(gpa, gpa_max) ==
    [school_name |-> "SNU", degree |-> None, major |-> None,
     gpa |-> gpa, gpa_max |-> gpa_max]

Career(company) == [company |-> company, role |-> None]

Language(test, score_or_grade) == [test |-> test, score_or_grade |-> score_or_grade]

Activity(award) == [name |-> "club", role |-> None, award |-> award]

\* The body with every list at its default [] and an unrecognised final_edu.
EmptySpec ==
    [nickname |-> "jenna", final_edu |-> "junghakgyo",
     final_status |-> "joreop", desired_job |-> "backend",
     universities |-> List(<<>>), careers |-> List(<<>>),
     certificates |-> List(<<>>), languages |-> List(<<>>),
     activities |-> List(<<>>)]

Gpas    == {None, Num(0), Num(3), Num(5), Num(-1)}
GpaMaxs == {None, Num(0), Num(4), Num(-4)}

UniEntries == {University(g, m) : g \in Gpas, m \in GpaMaxs}

Tests ==
    {TOEIC, <<"t","o","e","i","c">>, TOEFL, IELTS, OPIC, <<"J","L","P","T">>}

Scores ==
    {<<"9","9","0">>, <<"9","9","1">>, <<"a","b","c">>, <<"4",".","5">>,
     <<"-","1">>, <<"A","H">>}

LangEntries ==
    {Language(t, g) : t \in Tests, g \in Scores}
    \cup {Language(<<"O","p","i","c">>, <<"i","m">>)}

Awards == {None, Str(""), Str("gold")}

ActEntries == {Activity(a) : a \in Awards}

CareerEntries == {Career("acme"), Career("initech")}

CertEntries == {"SQLD", "ADsP"}

\* Bodies that differ from EmptySpec in the universities alone.
UniSpecs ==
    {[EmptySpec EXCEPT !.universities = List(us)] : us \in SeqsUpTo(UniEntries, MaxUnis)}

LangSpecs ==
    {[EmptySpec EXCEPT !.languages = List(ls)] : ls \in SeqsUpTo(LangEntries, MaxLangs)}

ActSpecs ==
    {[EmptySpec EXCEPT !.activities = List(as)] :
        as \in SeqsUpTo(ActEntries, MaxActs)
               \cup {[i \in 1..k |-> e] : k \in 0..MaxLongActs, e \in ActEntries}}

CountSpecs ==
    {[EmptySpec EXCEPT !.careers = List(cs)] : cs \in SeqsUpTo(CareerEntries, MaxCareers)}
    \cup
    {[EmptySpec EXCEPT !.certificates = List(cs)] : cs \in SeqsUpTo(CertEntries, MaxCerts)}

OptList(S, n) == {None} \cup {List(l) : l \in SeqsUpTo(S, n)}

EduInputs == {EduLabels[i] : i \in DOMAIN EduLabels} \cup {"junghakgyo"}

\* Bodies in which every scored field varies, None lists included.
FullSpecs ==
    {[EmptySpec EXCEPT !.final_edu = e, !.universities = us, !.careers = cs,
                       !.certificates = ct, !.languages = ls, !.activities = as] :
        e  \in EduInputs,
        us \in OptList({University(Float(36, 10), Num(4)),
                        University(Num(95), Float(45, 10)),
                        University(Num(-1), Num(4))}, MaxEntries),
        cs \in OptList({Career("acme")}, MaxCount),
        ct \in OptList({"SQLD"}, MaxCount),
        ls \in OptList({Language(TOEIC, <<"9","0","0">>),
                        Language(IELTS, <<"4",".","5">>)}, MaxEntries),
        as \in OptList({Activity(Str("gold"))}, MaxEntries)}

Nicknames  == {"jenna", " Jenna "}
Statuses   == {"joreop", "jaehak"}
Jobs       == {"backend", "designer"}

\* Pairs of bodies that agree on final_edu and the five lists.
PairSpecs ==
    {[c \in Clients |->
        IF c = "c1" THEN [base EXCEPT !.nickname = n1]
        ELSE [base EXCEPT !.nickname = n2, !.final_status = st, !.desired_job = job]] :
        base \in {[EmptySpec EXCEPT !.final_edu = e, !.universities = us,
                                    !.careers = cs, !.languages = ls, !.activities = as] :
                    e  \in {"haksa", "baksa"},
                    us \in {None, List(<<>>), List(<<University(Float(36, 10), Num(4))>>)},
                    cs \in {List(<<>>), List(<<Career("acme"), Career("initech")>>)},
                    ls \in {List(<<>>), List(<<Language(TOEIC, <<"9","0","0">>)>>)},
                    as \in {List(<<>>), List(<<Activity(Str("gold"))>>)}},
        n1 \in Nicknames, n2 \in Nicknames, st \in Statuses, job \in Jobs}

\* One varied body for c1, the empty body for c2.
OneOf(bodies) ==
    {[c \in Clients |-> IF c = "c1" THEN b ELSE EmptySpec] : b \in bodies}

InitWith(reqs) ==
    /\ requests \in reqs
    /\ responses = [c \in Clients |-> Pending]
    /\ locals = [c \in Clients |-> NoLocals]

Init      == InitWith(OneOf(FullSpecs))
InitUni   == InitWith(OneOf(UniSpecs))
InitLang  == InitWith(OneOf(LangSpecs))
InitAct   == InitWith(OneOf(ActSpecs))
InitCount == InitWith(OneOf(CountSpecs))
InitPair  == InitWith(PairSpecs)

Spec      == Init /\ [][Next]_vars
SpecUni   == InitUni /\ [][Next]_vars
SpecLang  == InitLang /\ [][Next]_vars
SpecAct   == InitAct /\ [][Next]_vars
SpecCount == InitCount /\ [][Next]_vars
SpecPair  == InitPair /\ [][Next]_vars

----------------------------------------------------------------------------
(* Properties *)

Done(c) == responses[c] # Pending

Ok(c) == responses[c].kind = "ok"

Items(c, field) == requests[c][field].items

MeanPercent(us, keep(_)) ==
    LET kept == SelectSeq(us, keep)
    IN  IF kept = <<>> THEN Num(0) ELSE Div(SumPercent(kept), Num(Len(kept)))

\* An entry with gpa and gpa_max both present and gpa_max > 0.
PresentAndPositive(u) ==
    u.gpa # None /\ u.gpa_max # None /\ Lt(Num(0), u.gpa_max)

\* C2 as stated: a language list holding a single OPIC entry (name compared
\* case-insensitively) with a recognised grade scores that grade's table value.
C2_OpicGradeScored ==
    \A c \in Clients :
        (Done(c) /\ Len(Items(c, "languages")) = 1) =>
            LET e == Items(c, "languages")[1]
                v == OpicGrade(Upper(e.score_or_grade))
            IN  (Upper(e.test) = OPIC /\ v > 0) => locals[c].lang = Num(v)

\* C3 as stated: the university score is the mean of gpa / gpa_max * 100 over
\* exactly the entries with gpa and gpa_max present and gpa_max > 0.
C3_MeanOverPresent ==
    \A c \in Clients :
        Done(c) => locals[c].uni = MeanPercent(Items(c, "universities"), PresentAndPositive)

\* The weighted sum written out in hundredths:
\* (20 edu + 20 uni + 15 car + 10 cert + 20 lang + 15 act) / 100.
Hundredths(l) ==
    Div(Add(Mul(Num(20), l.edu),
        Add(Mul(Num(20), l.uni),
        Add(Mul(Num(15), l.car),
        Add(Mul(Num(10), l.cert),
        Add(Mul(Num(20), l.lang),
            Mul(Num(15), l.act)))))), Num(100))

\* C4 as stated: each of the six category scores behind a returned result lies
\* in [0, 100], and so does their weighted sum before clamping.
C4_CategoryInUnit ==
    \A c \in Clients :
        Ok(c) =>
            /\ \A k \in DOMAIN locals[c] :
                  Le(Num(0), locals[c][k]) /\ Le(locals[c][k], Num(100))
            /\ Le(Num(0), Hundredths(locals[c]))
            /\ Le(Hundredths(locals[c]), Num(100))

AllZeroBut(l, keys) == \A k \in DOMAIN l \ keys : l[k] = Num(0)

\* C5: a returned score is round(min(max(S, 20), 100), 2) for the weighted sum S
\* of the six category scores, with weights 0.20, 0.20, 0.15, 0.10, 0.20, 0.15
\* that sum to 1; six zero category scores give 20.0, and so does an education
\* score of 100 with the five others zero.
C5_WeightedClampRound ==
    /\ Add(WEIGHTS.education, Add(WEIGHTS.university, Add(WEIGHTS.careers,
         Add(WEIGHTS.certificates, Add(WEIGHTS.languages, WEIGHTS.activities)))))
       = Num(1)
    /\ \A c \in Clients :
          Ok(c) =>
            LET l == locals[c]
                t == responses[c].totalScore
            IN  /\ t = Round2(Min(Max(Hundredths(l), Num(20)), Num(100)))
                /\ AllZeroBut(l, {}) => t = Num(20)
                /\ (l.edu = Num(100) /\ AllZeroBut(l, {"edu"})) => t = Num(20)

\* The full example (highest education, gpa 3.6 of 4.0, two careers, two
\* certificates, TOEIC 900, no activity) answered 64.18, and the empty body
\* answered 20.0.
C5_Witness ==
    /\ requests["c1"] =
         [EmptySpec EXCEPT !.final_edu = "baksa",
            !.universities = List(<<University(Float(36, 10), Num(4))>>),
            !.careers = List(<<Career("acme"), Career("acme")>>),
            !.certificates = List(<<"SQLD", "SQLD">>),
            !.languages = List(<<Language(TOEIC, <<"9","0","0">>)>>)]
    /\ Ok("c1") /\ responses["c1"].totalScore = Float(6418, 100)
    /\ Ok("c2") /\ responses["c2"].totalScore = Num(20)

ListFields == {"universities", "careers", "certificates", "languages", "activities"}

HasNoneList(c) == \E f \in ListFields : requests[c][f] = None

\* C6: every answered request got either a complete result (nickname and
\* totalScore) or an error; a body with a None list got a 500 error that
\* carries the exception's message and no score, every other body a result.
C6_ResultOrError ==
    \A c \in Clients :
        Done(c) =>
            LET r == responses[c]
            IN  \/ /\ r.kind = "ok"
                   /\ DOMAIN r = {"kind", "nickname", "totalScore"}
                   /\ ~HasNoneList(c)
                \/ /\ r.kind = "error"
                   /\ DOMAIN r = {"kind", "status_code", "detail"}
                   /\ r.status_code = 500
                   /\ r.detail \in {NotIterable.msg, NoLen.msg}
                   /\ HasNoneList(c)

\* A body whose only None list is careers was answered with the 500 error.
C6_Witness ==
    /\ requests["c1"].careers = None
    /\ \A f \in ListFields \ {"careers"} : requests["c1"][f] # None
    /\ responses["c1"] = [kind |-> "error", status_code |-> 500, detail |-> NoLen.msg]

SameScoredFields(c, d) ==
    /\ requests[c].final_edu = requests[d].final_edu
    /\ \A f \in ListFields : requests[c][f] = requests[d][f]

\* C7: two bodies that agree on final_edu and the five lists get the same
\* outcome and the same totalScore, whatever their nickname, final_status and
\* desired_job; a result carries the body's nickname unchanged.
C7_IgnoredFields ==
    /\ \A c, d \in Clients :
          (Done(c) /\ Done(d) /\ SameScoredFields(c, d)) =>
              /\ responses[c].kind = responses[d].kind
              /\ Ok(c) => responses[c].totalScore = responses[d].totalScore
    /\ \A c \in Clients : Ok(c) => responses[c].nickname = requests[c].nickname

\* Two answered bodies that differ in all three ignored fields.
C7_Witness ==
    /\ Ok("c1") /\ Ok("c2")
    /\ SameScoredFields("c1", "c2")
    /\ requests["c1"].nickname # requests["c2"].nickname
    /\ requests["c1"].final_status # requests["c2"].final_status
    /\ requests["c1"].desired_job # requests["c2"].desired_job
    /\ Lt(Num(20), responses["c1"].totalScore)

\* The maximum of the test named t (upper case), 0 if it is not one of the three.
TestMax(t) ==
    CASE t = TOEIC -> 990 [] t = TOEFL -> 120 [] t = IELTS -> 9 [] OTHER -> 0

\* Whether the entry e counts: a numeric test, a score that parses, in range.
NumericCounted(e) ==
    LET t == Upper(e.test)
        s == ParseFloat(e.score_or_grade)
    IN  /\ TestMax(t) > 0
        /\ s # ValueError
        /\ Le(Num(0), s) /\ Le(s, Num(TestMax(t)))

NumericPercent(e) ==
    Mul(Div(ParseFloat(e.score_or_grade), Num(TestMax(Upper(e.test)))), Num(100))

RECURSIVE SumNumeric(_)
SumNumeric(es) ==
    IF es = <<>> THEN Num(0) ELSE Add(NumericPercent(Head(es)), SumNumeric(Tail(es)))

\* C8: over a language list without OPIC entries, the score is the mean of
\* value / max * 100 over the TOEIC / TOEFL / IELTS entries (name compared
\* case-insensitively) whose score parses and lies in [0, max]; all other
\* entries are skipped without error, and the score is 0 when none counts.
C8_NumericTests ==
    \A c \in Clients :
        (Done(c) /\ \A i \in DOMAIN Items(c, "languages") :
                        Upper(Items(c, "languages")[i].test) # OPIC) =>
            LET counted == SelectSeq(Items(c, "languages"), NumericCounted)
            IN  /\ Ok(c)
                /\ locals[c].lang =
                     IF counted = <<>> THEN Num(0)
                     ELSE Div(SumNumeric(counted), Num(Len(counted)))

\* TOEIC "abc" and IELTS "4.5" scored 50: the IELTS entry alone was counted.
C8_Witness ==
    /\ Items("c1", "languages") =
         <<Language(TOEIC, <<"a","b","c">>), Language(IELTS, <<"4",".","5">>)>>
    /\ Done("c1")
    /\ locals["c1"].lang = Num(50)

NumAwarded(as) ==
    Cardinality({i \in DOMAIN as : as[i].award # None /\ as[i].award # Str("")})

\* C9: the activity score is min(10 * activities + 10 * awarded, 100), where
\* an activity is awarded when its award is neither None nor the empty string.
C9_ActivityScore ==
    \A c \in Clients :
        Done(c) =>
            LET as == Items(c, "activities")
                raw == 10 * Len(as) + 10 * NumAwarded(as)
            IN  locals[c].act = Num(IF raw < 100 THEN raw ELSE 100)

\* Eleven activities, all awarded (220 points), scored 100.
C9_Witness ==
    /\ Done("c1")
    /\ Len(Items("c1", "activities")) = 11
    /\ NumAwarded(Items("c1", "activities")) = 11
    /\ locals["c1"].act = Num(100)

\* C10: the career score is min(20 * count, 100) and the certificate score is
\* min(10 * count, 100), whatever the entries are; both are 0 for an empty
\* list, and a longer list never scores less than a shorter one.
C10_CountScores ==
    /\ \A c \in Clients :
          Done(c) =>
            LET nc == Len(Items(c, "careers"))
                nt == Len(Items(c, "certificates"))
            IN  /\ locals[c].car = Num(IF 20 * nc < 100 THEN 20 * nc ELSE 100)
                /\ locals[c].cert = Num(IF 10 * nt < 100 THEN 10 * nt ELSE 100)
                /\ nc = 0 => locals[c].car = Num(0)
                /\ nt = 0 => locals[c].cert = Num(0)
    /\ \A c, d \in Clients :
          (Done(c) /\ Done(d)) =>
            /\ Len(Items(c, "careers")) <= Len(Items(d, "careers"))
                 => Le(locals[c].car, locals[d].car)
            /\ Len(Items(c, "certificates")) <= Len(Items(d, "certificates"))
                 => Le(locals[c].cert, locals[d].cert)

\* Seven careers of mixed content scored 100, not 140.
C10_Witness ==
    /\ Done("c1") /\ Done("c2")
    /\ Len(Items("c1", "careers")) = 7
    /\ \E i, j \in 1..7 : Items("c1", "careers")[i] # Items("c1", "careers")[j]
    /\ locals["c1"].car = Num(100)

====
